---- MODULE Spec2Model ----
(***************************************************************************)
(* Model of the Coi development server (scripts/dev_server.py): the file   *)
(* watcher thread (watch_files), the reload signal (reload_event, a        *)
(* threading.Event), the client registry (sse_clients under sse_lock) and  *)
(* one thread per Server-Sent-Events connection (DevHandler.handle_sse).   *)
(***************************************************************************)
EXTENDS Integers, Sequences, FiniteSets, TLC

(* Bounds of the model: modification times are drawn from 1..MaxClock; the *)
(* liveness specification stops editing files at time MaxFairClock.        *)
MaxClock == 3
MaxFairClock == 2

(* The browser tabs that may open an event stream, one handler thread each *)
Clients == {"c1", "c2"}

(* Files under the project directory: root directory, stem and extension.  *)
Paths ==
  { [root |-> "src",    name |-> "a", ext |-> "coi"],
    [root |-> "styles", name |-> "x", ext |-> "css"],
    [root |-> "src",    name |-> "a", ext |-> "txt"] }

VARIABLES
  fs,            \* the file system: existing path -> modification time
  clock,         \* the last modification time handed out
  dirty,         \* a watched file was created/modified/deleted since the last scan
  wpc,           \* watcher thread: "start", "sleep", "building", "dead"
  last,          \* watch_files: baseline snapshot
  curr,          \* watch_files: snapshot of the current tick
  lastBuild,     \* outcome of the latest build: "none", "ok", "fail", "raise"
  builds,        \* number of build commands invoked
  pulses,        \* number of notify_reload calls
  reload_event,  \* the internal flag of threading.Event
  sse_clients,   \* the registry: a list of output streams (named by client)
  sse_lock,      \* holder of sse_lock, or "free"
  pc,            \* per handler thread: position in handle_sse
  broken,        \* per client: writes to its stream fail
  owed,          \* per client: "blocked"/"between" when a pulse found it registered
                 \* (blocked in the wait / elsewhere) and no reload was written since;
                 \* "paid" once a handler found blocked has written its reload
  pingsOwed,     \* per client: keep-alives written while owed a reload
  sincePulse,    \* per client: reload events written since the latest pulse
  fresh,         \* per client: the flag was set at or after its registration
  failWrites,    \* per client: writes that raised
  hot_reload_enabled,  \* the global set by main: watch mode is on
  dist,          \* the served directory: existing file -> content (tokens)
  resp,          \* the response to the latest GET, or NoResponse
  argv,          \* sys.argv
  mpc,           \* main: "start", "usage_exit", "serving"
  watcher_started, \* main started the watcher thread
  storage,       \* browser tab: sessionStorage['__coi_scroll'], Some(string) or None
  scrollY,       \* browser tab: the page's scroll offset, in half pixels
  jpc,           \* browser tab: "loaded", "reloading", "loading"
  pending,       \* browser tab: the y of the scroll the script scheduled, or None
  scrolls,       \* browser tab: scrollTo calls of the script on the current page
  scrolledTo,    \* browser tab: the offset of the latest scrollTo, in half pixels
  target,        \* browser tab: the offset when the latest reload message came
  origin,        \* browser tab: why the page was loaded: "first", "message", "manual"
  manifest,      \* parse_manifest: Some(lines of scenes_manifest.txt) or None
  filter_name,   \* parse_manifest: its argument, Some(string) or None
  scenes,        \* parse_manifest: its outcome (NotCalled, Exited, Returned)
  cwd,           \* the process's working directory (os.chdir in main)
  invoked,       \* watch_files: the latest subprocess.run call, args and cwd
  uenv,          \* unit runner: the compiler executable and what build.sh does
  udisk,         \* unit runner: the test files under tests_dir, sorted
  upc,           \* UnitRunner.run: "start", "loop", "returned", "exited"
  test_files,    \* UnitRunner.run: the discovered tests
  ui,            \* UnitRunner.run: position of the loop in sorted(test_files)
  passed_count,  \* UnitRunner.run
  failures,      \* UnitRunner.run: the recorded failures (positions of the tests)
  verdicts,      \* UnitRunner.run: the tests classified so far and their verdicts
  ienv,          \* integration runner: what the set-up before the loop meets
  iscenes,       \* IntegrationRunner.run: the scenes parse_manifest returned
  ipc,           \* IntegrationRunner.run: "start", "loop", "enter", "browser",
                 \* "leave", "leave_raising", "returned", "exited"
  ii,            \* IntegrationRunner.run: position of the loop in scenes
  failed,        \* IntegrationRunner.run
  proc,          \* WebServer.proc: "none", "running", "terminated"
  counted,       \* IntegrationRunner.run: the scene of each failed += 1
  tested         \* IntegrationRunner.run: the scenes whose browser test was run

serverVars == << fs, clock, dirty, wpc, last, curr, lastBuild, builds, pulses,
                 reload_event, sse_clients, sse_lock, pc, broken, owed,
                 pingsOwed, sincePulse, fresh, failWrites >>

httpVars == << hot_reload_enabled, dist, resp >>
mainVars == << argv, mpc, watcher_started >>

jsVars == << storage, scrollY, jpc, pending, scrolls, scrolledTo, target,
            origin >>
manVars == << manifest, filter_name, scenes >>
runVars == << cwd, invoked >>
unitVars == << uenv, udisk, upc, test_files, ui, passed_count, failures,
              verdicts >>
itVars == << ienv, iscenes, ipc, ii, failed, proc, counted, tested >>
testVars == << unitVars, itVars >>

(* The state outside the watcher and the event streams.                    *)
extVars == << httpVars, mainVars, jsVars, manVars, runVars, testVars >>

vars == << serverVars, extVars >>

fsVars      == << fs, clock, dirty >>
watchVars   == << wpc, last, curr, lastBuild, builds, pulses >>
clientVars  == << sse_clients, sse_lock, broken, failWrites >>
histVars    == << owed, pingsOwed, sincePulse, fresh >>

----------------------------------------------------------------------------
(* get_mtimes: the three watched roots and their extension filters.        *)
Watched(p) ==
  \/ p.root = "src" /\ p.ext = "coi"
  \/ p.root = "assets"
  \/ p.root = "styles" /\ p.ext = "css"

get_mtimes(f) == [p \in {q \in DOMAIN f : Watched(q)} |-> f[p]]

(* watch_files: the paths reported as changed between two snapshots.       *)
changed_NoDeleted(c, l) == {p \in DOMAIN c : p \notin DOMAIN l \/ l[p] # c[p]}

changed_NoModified(c, l) ==
  {p \in DOMAIN c : p \notin DOMAIN l} \cup {p \in DOMAIN l : p \notin DOMAIN c}

changed(c, l) ==
  {p \in DOMAIN c : p \notin DOMAIN l \/ l[p] # c[p]}
    \cup {p \in DOMAIN l : p \notin DOMAIN c}

(* watch_files: the build outcomes after which notify_reload is called.    *)
Pulses_Always(outcome) == TRUE

Pulses(outcome) == outcome = "ok"

BuildOutcomes == {"ok", "fail", "raise"}

----------------------------------------------------------------------------
(* threading.Event as used by handle_sse and notify_reload.                *)

(* set(): every thread blocked in wait() is notified and will return True. *)
Woken_NoNotify(p) == p

Woken(p) == [h \in Clients |-> IF p[h] = "blocked" THEN "woke" ELSE p[h]]

(* wait(timeout=30) on entry: returns True at once when the flag is set,   *)
(* blocks otherwise.                                                       *)
WaitEntry_AlwaysTrue(flag) == "woke"

WaitEntry(flag) == IF flag THEN "woke" ELSE "blocked"

(* clear(): the flag after the handler's reload_event.clear().             *)
Cleared_Kept(flag) == flag

Cleared(flag) == FALSE

(* except: pass / finally: a write that raises leaves the loop for the     *)
(* teardown.                                                               *)
OnWriteError_Continue == "wait"

OnWriteError == "lock_fin"

(* sse_lock: `with sse_lock` enters only when the lock is free.            *)
CanAcquire_Unguarded(h) == TRUE

CanAcquire(h) == sse_lock = "free"

(* The registry after `if self.wfile in sse_clients: sse_clients.remove`.  *)
Removed_Never(list, h) == list

Removed(list, h) ==
  IF \E i \in 1..Len(list) : list[i] = h
    THEN LET i == CHOOSE j \in 1..Len(list) :
                    list[j] = h /\ \A k \in 1..(j - 1) : list[k] # h
         IN  SubSeq(list, 1, i - 1) \o SubSeq(list, i + 1, Len(list))
    ELSE list

InRegistry(h) == \E i \in 1..Len(sse_clients) : sse_clients[i] = h

----------------------------------------------------------------------------
ServerInit ==
  /\ fs = [p \in {q \in Paths : q.ext = "coi"} |-> 1]
  /\ clock = 1
  /\ dirty = FALSE
  /\ wpc = "start"
  /\ last = << >>
  /\ curr = << >>
  /\ lastBuild = "none"
  /\ builds = 0
  /\ pulses = 0
  /\ reload_event = FALSE
  /\ sse_clients = << >>
  /\ sse_lock = "free"
  /\ pc = [h \in Clients |-> "idle"]
  /\ broken = [h \in Clients |-> FALSE]
  /\ owed = [h \in Clients |-> "no"]
  /\ pingsOwed = [h \in Clients |-> 0]
  /\ sincePulse = [h \in Clients |-> 0]
  /\ fresh = [h \in Clients |-> FALSE]
  /\ failWrites = [h \in Clients |-> 0]

(* No request has been answered.                                           *)
NoResponse == [kind |-> "none"]

(* The server as main leaves it when run with a project directory and a    *)
(* build executable and without --no-watch, serving an empty directory.    *)
HttpIdle ==
  /\ hot_reload_enabled = TRUE
  /\ dist = << >>
  /\ resp = NoResponse

MainDone ==
  /\ argv = << "dev_server.py", "proj", "coi" >>
  /\ mpc = "serving"
  /\ watcher_started = TRUE

(* An optional value: None (JavaScript's null, Python's None) or Some(x).  *)
None == << >>
Some(x) == << x >>

(* A tab showing a page without the script having anything to do.          *)
JsIdle ==
  /\ storage = None
  /\ scrollY = 0
  /\ jpc = "loaded"
  /\ pending = None
  /\ scrolls = 0
  /\ scrolledTo = None
  /\ target = None
  /\ origin = "first"

(* parse_manifest has not been called.                                     *)
ManIdle ==
  /\ manifest = None
  /\ filter_name = None
  /\ scenes = [kind |-> "none"]

(* File-system paths: absolute or relative, a sequence of components.      *)
AbsPath(parts) == [abs |-> TRUE, parts |-> parts]
RelPath(parts) == [abs |-> FALSE, parts |-> parts]

(* The directory the server is started in.                                 *)
StartDir == AbsPath(<< "home" >>)

(* The path a command-line argument names.                                 *)
PathOf(arg) ==
  CASE arg = "/home/proj" -> AbsPath(<< "home", "proj" >>)
    [] arg = "."          -> RelPath(<< >>)
    [] OTHER              -> RelPath(<< arg >>)

(* os.path.join(a, b)                                                      *)
Join(a, b) == IF b.abs THEN b ELSE [abs |-> a.abs, parts |-> a.parts \o b.parts]

(* The directory a path names while the working directory is dir.          *)
Resolve(dir, path) == Join(dir, path)

(* main, line 200: os.chdir(os.path.join(project_dir, 'dist'))             *)
ChdirDist(dir, a) == Resolve(dir, Join(PathOf(a[2]), RelPath(<< "dist" >>)))

(* The server after main's chdir; the watcher has run no build.            *)
RunIdle ==
  /\ cwd = ChdirDist(StartDir, << "dev_server.py", "proj", "coi" >>)
  /\ invoked = None

(* The unit runner has not been started; there are no tests.               *)
UnitIdle ==
  /\ uenv = [compiler |-> "executable", build |-> "makes"]
  /\ udisk = << >>
  /\ upc = "start"
  /\ test_files = << >>
  /\ ui = 1
  /\ passed_count = 0
  /\ failures = << >>
  /\ verdicts = << >>

(* The integration runner has not been started; no scene is selected.     *)
IntIdle ==
  /\ ienv = "ok"
  /\ iscenes = << >>
  /\ ipc = "start"
  /\ ii = 1
  /\ failed = 0
  /\ proc = "none"
  /\ counted = << >>
  /\ tested = {}

TestIdle == UnitIdle /\ IntIdle

Init ==
  ServerInit /\ HttpIdle /\ MainDone /\ JsIdle /\ ManIdle /\ RunIdle /\ TestIdle

----------------------------------------------------------------------------
(* The environment: edits of the project's files.                          *)
Create(p) ==
  /\ p \notin DOMAIN fs
  /\ clock < MaxClock
  /\ clock' = clock + 1
  /\ fs' = [q \in DOMAIN fs \cup {p} |-> IF q = p THEN clock + 1 ELSE fs[q]]
  /\ dirty' = (dirty \/ Watched(p))
  /\ UNCHANGED << watchVars, reload_event, clientVars, pc, histVars >>
  /\ UNCHANGED extVars

Modify(p) ==
  /\ p \in DOMAIN fs
  /\ clock < MaxClock
  /\ clock' = clock + 1
  /\ fs' = [fs EXCEPT ![p] = clock + 1]
  /\ dirty' = (dirty \/ Watched(p))
  /\ UNCHANGED << watchVars, reload_event, clientVars, pc, histVars >>
  /\ UNCHANGED extVars

Delete(p) ==
  /\ p \in DOMAIN fs
  /\ fs' = [q \in DOMAIN fs \ {p} |-> fs[q]]
  /\ dirty' = (dirty \/ Watched(p))
  /\ UNCHANGED << clock, watchVars, reload_event, clientVars, pc, histVars >>
  /\ UNCHANGED extVars

----------------------------------------------------------------------------
(* notify_reload: reload_event.set().  The flag becomes true and every     *)
(* handler blocked in the wait is woken.  The history variables record     *)
(* which registered handlers the pulse found, and where.                   *)
Registered(h) == pc[h] \in {"wait", "blocked", "woke", "clear", "timedout"}

Owed(h) == owed[h] \in {"blocked", "between"}

notify_reload ==
  /\ reload_event' = TRUE
  /\ pc' = Woken(pc)
  /\ pulses' = pulses + 1
  /\ owed' = [h \in Clients |->
                IF ~Registered(h) THEN owed[h]
                ELSE IF pc[h] = "blocked" \/ owed[h] = "blocked" THEN "blocked"
                ELSE "between"]
  /\ sincePulse' = [h \in Clients |-> 0]
  /\ fresh' = [h \in Clients |-> TRUE]
  /\ UNCHANGED pingsOwed

(* The watcher thread: watch_files.                                        *)

(* last = get_mtimes(project_dir), before the loop.                        *)
WatchStart ==
  /\ watcher_started
  /\ wpc = "start"
  /\ last' = get_mtimes(fs)
  /\ dirty' = FALSE
  /\ wpc' = "sleep"
  /\ UNCHANGED << fs, clock, curr, lastBuild, builds, pulses, reload_event,
                  clientVars, pc, histVars >>
  /\ UNCHANGED extVars

(* get_mtimes raises (it catches OSError around stat() only): neither call *)
(* of it is inside a try, so the exception ends the watcher thread.        *)
ScanRaises ==
  /\ watcher_started
  /\ wpc \in {"start", "sleep"}
  /\ wpc' = "dead"
  /\ UNCHANGED << fsVars, last, curr, lastBuild, builds, pulses, reload_event,
                  clientVars, pc, histVars >>
  /\ UNCHANGED extVars

(* The watcher is in time.sleep(0.3) at the head of its loop: the loop     *)
(* body, the build included, has run to its end.                           *)
AtSleep_OrBuilding(w) == w \in {"sleep", "building"}

AtSleep(w) == w = "sleep"

(* last = curr (line 183), after the try statement: whatever the outcome.  *)
Baseline_KeptOnFailure(outcome, l, c) == IF outcome = "ok" THEN c ELSE l

Baseline(outcome, l, c) == c

(* cmd = [coi_bin, 'build'] and the two optional flags, lines 164-166;     *)
(* keep_cc and cc_only are main's tests of sys.argv, lines 197-198.        *)
BuildCmd(a) ==
  << a[3], "build" >>
    \o (IF \E i \in 1..Len(a) : a[i] = "--keep-cc" THEN << "--keep-cc" >> ELSE << >>)
    \o (IF \E i \in 1..Len(a) : a[i] = "--cc-only" THEN << "--cc-only" >> ELSE << >>)

(* subprocess.run(cmd, ..., cwd=project_dir): the child's directory is     *)
(* project_dir as the process's working directory resolves it.             *)
BuildDir(dir, a) == Resolve(dir, PathOf(a[2]))

(* One tick: sleep, scan, compare; a non-empty change list starts the      *)
(* build command (subprocess.run blocks the watcher until BuildReturn).    *)
Tick ==
  /\ AtSleep(wpc)
  /\ curr' = get_mtimes(fs)
  /\ dirty' = FALSE
  /\ IF changed(curr', last) # {}
       THEN /\ wpc' = "building" /\ builds' = builds + 1
            /\ invoked' = Some([args |-> BuildCmd(argv), cwd |-> BuildDir(cwd, argv)])
       ELSE /\ wpc' = "sleep" /\ builds' = builds
            /\ invoked' = invoked
  /\ UNCHANGED << fs, clock, last, lastBuild, pulses, reload_event,
                  clientVars, pc, histVars >>
  /\ UNCHANGED << httpVars, mainVars, jsVars, manVars, cwd, testVars >>

(* subprocess.run returns 0 ("ok"), returns non-zero ("fail") or raises    *)
(* (spawn failure, TimeoutExpired: "raise"); then last = curr.             *)
BuildReturn ==
  /\ wpc = "building"
  /\ \E outcome \in BuildOutcomes :
       /\ lastBuild' = outcome
       /\ IF Pulses(outcome)
            THEN notify_reload
            ELSE UNCHANGED << pulses, reload_event, pc, histVars >>
  /\ last' = Baseline(lastBuild', last, curr)
  /\ wpc' = "sleep"
  /\ UNCHANGED << fsVars, curr, builds, clientVars >>
  /\ UNCHANGED extVars

----------------------------------------------------------------------------
(* One handler thread per connection: DevHandler.handle_sse.               *)

Bump(n) == IF n < 2 THEN n + 1 ELSE n

(* GET /__hot_reload arrives: do_GET calls handle_sse.                     *)
Connect(h) ==
  /\ hot_reload_enabled
  /\ pc[h] = "idle"
  /\ pc' = [pc EXCEPT ![h] = "headers"]
  /\ UNCHANGED << fsVars, watchVars, reload_event, clientVars, histVars >>
  /\ UNCHANGED extVars

(* The client goes away: from now on writes to its stream raise.           *)
Disconnect(h) ==
  /\ pc[h] \notin {"idle", "done"}
  /\ ~broken[h]
  /\ broken' = [broken EXCEPT ![h] = TRUE]
  /\ UNCHANGED << fsVars, watchVars, reload_event, sse_clients, sse_lock,
                  failWrites, pc, histVars >>
  /\ UNCHANGED extVars

(* send_response .. end_headers: outside the try, so a failure leaves      *)
(* handle_sse before the stream was registered.                            *)
SendHeaders(h) ==
  /\ pc[h] = "headers"
  /\ IF broken[h]
       THEN /\ pc' = [pc EXCEPT ![h] = "done"]
            /\ failWrites' = [failWrites EXCEPT ![h] = Bump(@)]
       ELSE /\ pc' = [pc EXCEPT ![h] = "lock_reg"]
            /\ UNCHANGED failWrites
  /\ UNCHANGED << fsVars, watchVars, reload_event, sse_clients, sse_lock,
                  broken, histVars >>
  /\ UNCHANGED extVars

(* with sse_lock: (registration)                                           *)
AcquireReg(h) ==
  /\ pc[h] = "lock_reg"
  /\ CanAcquire(h)
  /\ sse_lock' = h
  /\ pc' = [pc EXCEPT ![h] = "append"]
  /\ UNCHANGED << fsVars, watchVars, reload_event, sse_clients, broken,
                  failWrites, histVars >>
  /\ UNCHANGED extVars

(* sse_clients.append(self.wfile), and the lock is released.               *)
AppendClient(h) ==
  /\ pc[h] = "append"
  /\ sse_clients' = Append(sse_clients, h)
  /\ sse_lock' = "free"
  /\ fresh' = [fresh EXCEPT ![h] = reload_event]
  /\ pc' = [pc EXCEPT ![h] = "wait"]
  /\ UNCHANGED << fsVars, watchVars, reload_event, broken, failWrites,
                  owed, pingsOwed, sincePulse >>
  /\ UNCHANGED extVars

(* reload_event.wait(timeout=30) is entered.                               *)
Wait(h) ==
  /\ pc[h] = "wait"
  /\ pc' = [pc EXCEPT ![h] = WaitEntry(reload_event)]
  /\ UNCHANGED << fsVars, watchVars, reload_event, clientVars, histVars >>
  /\ UNCHANGED extVars

(* The 30 s elapse without a set(): wait returns False.                    *)
Timeout(h) ==
  /\ pc[h] = "blocked"
  /\ pc' = [pc EXCEPT ![h] = "timedout"]
  /\ UNCHANGED << fsVars, watchVars, reload_event, clientVars, histVars >>
  /\ UNCHANGED extVars

(* wait returned True: write b'data: reload\n\n' and flush.                *)
WriteReload(h) ==
  /\ pc[h] = "woke"
  /\ IF broken[h]
       THEN /\ pc' = [pc EXCEPT ![h] = OnWriteError]
            /\ failWrites' = [failWrites EXCEPT ![h] = Bump(@)]
            /\ UNCHANGED histVars
       ELSE /\ pc' = [pc EXCEPT ![h] = "clear"]
            /\ owed' = [owed EXCEPT ![h] = IF @ = "blocked" THEN "paid" ELSE "no"]
            /\ pingsOwed' = [pingsOwed EXCEPT ![h] = 0]
            /\ sincePulse' = [sincePulse EXCEPT ![h] = Bump(@)]
            /\ UNCHANGED << failWrites, fresh >>
  /\ UNCHANGED << fsVars, watchVars, reload_event, sse_clients, sse_lock,
                  broken >>
  /\ UNCHANGED extVars

(* reload_event.clear(), then the loop waits again.                        *)
Clear(h) ==
  /\ pc[h] = "clear"
  /\ reload_event' = Cleared(reload_event)
  /\ pc' = [pc EXCEPT ![h] = "wait"]
  /\ UNCHANGED << fsVars, watchVars, clientVars, histVars >>
  /\ UNCHANGED extVars

(* wait returned False: write b': ping\n\n' and flush, then wait again.    *)
WritePing(h) ==
  /\ pc[h] = "timedout"
  /\ IF broken[h]
       THEN /\ pc' = [pc EXCEPT ![h] = OnWriteError]
            /\ failWrites' = [failWrites EXCEPT ![h] = Bump(@)]
            /\ UNCHANGED histVars
       ELSE /\ pc' = [pc EXCEPT ![h] = "wait"]
            /\ pingsOwed' = [pingsOwed EXCEPT ![h] =
                               IF Owed(h) THEN Bump(@) ELSE @]
            /\ UNCHANGED << failWrites, owed, sincePulse, fresh >>
  /\ UNCHANGED << fsVars, watchVars, reload_event, sse_clients, sse_lock,
                  broken >>
  /\ UNCHANGED extVars

(* except: pass / finally: with sse_lock:                                  *)
AcquireFin(h) ==
  /\ pc[h] = "lock_fin"
  /\ CanAcquire(h)
  /\ sse_lock' = h
  /\ pc' = [pc EXCEPT ![h] = "remove"]
  /\ UNCHANGED << fsVars, watchVars, reload_event, sse_clients, broken,
                  failWrites, histVars >>
  /\ UNCHANGED extVars

(* if self.wfile in sse_clients: sse_clients.remove(self.wfile); the lock  *)
(* is released and handle_sse returns.                                     *)
RemoveClient(h) ==
  /\ pc[h] = "remove"
  /\ sse_clients' = Removed(sse_clients, h)
  /\ sse_lock' = "free"
  /\ pc' = [pc EXCEPT ![h] = "done"]
  /\ UNCHANGED << fsVars, watchVars, reload_event, broken, failWrites,
                  histVars >>
  /\ UNCHANGED extVars

Handler(h) ==
  \/ SendHeaders(h) \/ AcquireReg(h) \/ AppendClient(h) \/ Wait(h)
  \/ Timeout(h) \/ WriteReload(h) \/ Clear(h) \/ WritePing(h)
  \/ AcquireFin(h) \/ RemoveClient(h)

Watcher == WatchStart \/ ScanRaises \/ Tick \/ BuildReturn

----------------------------------------------------------------------------
Next ==
  \/ \E p \in Paths : Create(p)
  \/ \E p \in Paths : Modify(p)
  \/ \E p \in Paths : Delete(p)
  \/ WatchStart
  \/ ScanRaises
  \/ Tick
  \/ BuildReturn
  \/ \E h \in Clients : Connect(h)
  \/ \E h \in Clients : Disconnect(h)
  \/ \E h \in Clients : Handler(h)

Spec == Init /\ [][Next]_vars

(* The watcher and the project's files alone: no client connects.          *)
NextWatch ==
  \/ \E p \in Paths : Create(p)
  \/ \E p \in Paths : Modify(p)
  \/ \E p \in Paths : Delete(p)
  \/ WatchStart
  \/ ScanRaises
  \/ Tick
  \/ BuildReturn

SpecWatch == Init /\ [][NextWatch]_vars

(* The event streams with the watcher: the project's files are edited in   *)
(* place (neither created nor deleted).                                    *)
NextSSE ==
  \/ \E p \in Paths : Modify(p)
  \/ WatchStart
  \/ ScanRaises
  \/ Tick
  \/ BuildReturn
  \/ \E h \in Clients : Connect(h)
  \/ \E h \in Clients : Disconnect(h)
  \/ \E h \in Clients : Handler(h)

SpecSSE == Init /\ [][NextSSE]_vars

(* The event streams under the scheduling the runtime provides: every      *)
(* handler thread keeps running, and a bounded wait ends after 30 s.       *)
NextFair ==
  \/ \E p \in Paths : clock < MaxFairClock /\ Modify(p)
  \/ WatchStart
  \/ ScanRaises
  \/ Tick
  \/ BuildReturn
  \/ \E h \in Clients : Connect(h)
  \/ \E h \in Clients : Disconnect(h)
  \/ \E h \in Clients : Handler(h)

FairSSE ==
  Init /\ [][NextFair]_vars /\ \A h \in Clients : WF_vars(Handler(h))

----------------------------------------------------------------------------
(* Steps of the handlers, as seen in a transition.                         *)
WroteReload(h) == pc[h] = "woke" /\ pc'[h] = "clear"
WrotePing(h)   == pc[h] = "timedout" /\ pc'[h] = "wait"

C2_NoMissedReload == \A h \in Clients : pingsOwed[h] < 2

(* C3: no handler writes `data: reload` more than once for one pulse.      *)
C3_AtMostOncePerPulse == \A h \in Clients : sincePulse[h] <= 1

(* One pulse, both handlers wrote reload once and wait again.              *)
C3_Witness ==
  /\ pulses = 1
  /\ ~reload_event
  /\ \A h \in Clients : sincePulse[h] = 1 /\ pc[h] = "blocked"

(* C4 as stated: every tick whose interval saw a create/modify/delete of a *)
(* watched file invokes the build once, a tick without one invokes none,   *)
(* and a build is followed by one pulse iff it exits zero.                 *)
C4_OneBuildPerBatch ==
  [][ /\ Tick => builds' = builds + (IF dirty THEN 1 ELSE 0)
      /\ BuildReturn => pulses' = pulses + (IF lastBuild' = "ok" THEN 1 ELSE 0)
    ]_vars

(* C4 amended: the build is invoked exactly once per tick whose snapshot   *)
(* differs from the baseline snapshot and not otherwise, and a build is    *)
(* followed by exactly one pulse iff it exits zero; no other step builds   *)
(* or pulses.                                                              *)
C4_OneBuildPerChangedTick ==
  [][ /\ Tick => builds' = builds + (IF get_mtimes(fs) # last THEN 1 ELSE 0)
      /\ BuildReturn => pulses' = pulses + (IF lastBuild' = "ok" THEN 1 ELSE 0)
      /\ ~Tick => builds' = builds
      /\ ~BuildReturn => pulses' = pulses
    ]_vars

(* Two files were edited within one interval, one build ran and pulsed.    *)
C4_Witness ==
  /\ builds = 1 /\ pulses = 1 /\ lastBuild = "ok" /\ wpc = "sleep"
  /\ \E p, q \in DOMAIN last : p # q /\ last[p] = 2 /\ last[q] = 3

(* C5: no backlog delivery: a handler has written reload only if the flag  *)
(* was set when it registered or a build succeeded after it registered.    *)
C5_NoBacklog == \A h \in Clients : pc[h] = "clear" => fresh[h]

(* c2 registered after c1 consumed the pulse, and its wait timed out.      *)
C5_Witness ==
  /\ pulses = 1 /\ sincePulse["c1"] = 1 /\ ~reload_event
  /\ ~fresh["c2"] /\ pc["c2"] = "timedout"

(* C6: a build that exits non-zero or raises does not call notify_reload,  *)
(* leaves the reload signal and the handlers as they were, and the watcher *)
(* goes on to the next tick with the tick's snapshot as baseline.          *)
C6_FailedBuildNoPulse ==
  [][(BuildReturn /\ lastBuild' # "ok") =>
       /\ pulses' = pulses
       /\ reload_event' = reload_event
       /\ pc' = pc
       /\ wpc' = "sleep"]_vars

(* A build succeeded, the next one raised, the flag is still as it was.    *)
C6_Witness ==
  /\ lastBuild = "raise" /\ builds = 2 /\ pulses = 1 /\ reload_event
  /\ wpc = "sleep"

(* C7: the watcher loop never terminates on an internal error.             *)
C7_WatcherNeverDies == wpc # "dead"

(* C8: the registry holds exactly the streams of the handlers that have    *)
(* registered and not yet terminated, each once.                           *)
C8_RegistryExact ==
  /\ \A h \in Clients :
       InRegistry(h) <=>
         pc[h] \in {"wait", "blocked", "woke", "clear", "timedout",
                    "lock_fin", "remove"}
  /\ \A i, j \in 1..Len(sse_clients) :
       sse_clients[i] = sse_clients[j] => i = j

(* c1 was written a reload, then its stream failed and it terminated,      *)
(* while c2 is still registered.                                           *)
C8_Witness ==
  /\ pc["c1"] = "done" /\ failWrites["c1"] = 1 /\ owed["c1"] = "paid"
  /\ sse_clients = << "c2" >>

(* C9: once a registered client's stream fails, the stream is eventually   *)
(* out of the registry with its handler terminated, and no stream ever     *)
(* gets a second failing write.                                            *)
C9_FailedStreamRemoved ==
  /\ \A h \in Clients :
       (broken[h] /\ pc[h] \notin {"idle", "done"})
         ~> (pc[h] = "done" /\ ~InRegistry(h))
  /\ [](\A h \in Clients : failWrites[h] <= 1)

(* c2's stream failed while it was blocked; one keep-alive write raised    *)
(* and the handler has unregistered.                                       *)
C9_Witness ==
  /\ pc["c2"] = "done" /\ broken["c2"] /\ failWrites["c2"] = 1
  /\ pulses = 0 /\ sse_clients = << "c1" >>

(* C10: every access to the registry (append; membership test and remove)  *)
(* happens while the accessing thread holds sse_lock, so at most one       *)
(* thread is inside a registry access.                                     *)
C10_RegistryUnderLock ==
  \A h \in Clients : pc[h] \in {"append", "remove"} => sse_lock = h

(* c1 is inside the teardown's access while c2 waits for the lock.         *)
C10_Witness ==
  /\ pc["c1"] = "remove" /\ sse_lock = "c1" /\ pc["c2"] = "lock_reg"

----------------------------------------------------------------------------
(* DevHandler.do_GET: the static file server with SPA fallback and the     *)
(* injection of the reload script.                                         *)

(* Bound of the model: served documents have at most MaxDocLen tokens.     *)
MaxDocLen == 3

(* Documents are sequences of tokens: the closing body tag the script is   *)
(* looked for, the same tag in upper case, and any other text.             *)
BodyTag == "</body>"
Tokens == {"text", BodyTag, "</BODY>"}

(* The injected <script>...</script> element (the replacement text is this *)
(* element followed by the closing body tag).                              *)
Script == "<script>"

Docs == UNION {[1..n -> Tokens] : n \in 0..MaxDocLen}

(* Request targets: path stem, extension and query string.                 *)
HotReloadUrl == [stem |-> "__hot_reload", ext |-> "", query |-> ""]

Urls ==
  { HotReloadUrl,
    [stem |-> "__hot_reload", ext |-> "", query |-> "v=1"],
    [stem |-> "index", ext |-> "html", query |-> ""],
    [stem |-> "page",  ext |-> "html", query |-> ""],
    [stem |-> "app",   ext |-> "js",   query |-> ""],
    [stem |-> "app",   ext |-> "js",   query |-> "v=1"],
    [stem |-> "about", ext |-> "",     query |-> ""] }

(* self.path = '/index.html'; translate_path(self.path)                    *)
IndexFile == [stem |-> "index", ext |-> "html"]
PageFile  == [stem |-> "page",  ext |-> "html"]
AppFile   == [stem |-> "app",   ext |-> "js"]

(* translate_path: the file under the served directory; the query string   *)
(* is dropped.                                                             *)
translate_path(url) == [stem |-> url.stem, ext |-> url.ext]

(* os.path.isfile                                                          *)
isfile(d, f) == f \in DOMAIN d

(* do_GET, line 40: the request is for the event stream.                   *)
IsSSE_IgnoreFlag(url, hot) == url = HotReloadUrl

IsSSE(url, hot) == url = HotReloadUrl /\ hot

(* content.replace(b'</body>', script): bytes.replace substitutes every    *)
(* occurrence of the tag by the script element followed by the tag.        *)
RECURSIVE ReplaceAll(_)
ReplaceAll(doc) ==
  IF doc = << >> THEN << >>
  ELSE (IF Head(doc) = BodyTag THEN << Script, BodyTag >> ELSE << Head(doc) >>)
         \o ReplaceAll(Tail(doc))

RECURSIVE ReplaceAfter(_)
ReplaceAfter(doc) ==
  IF doc = << >> THEN << >>
  ELSE (IF Head(doc) = BodyTag THEN << BodyTag, Script >> ELSE << Head(doc) >>)
         \o ReplaceAfter(Tail(doc))

InjectReload_AfterTag(content) == ReplaceAfter(content)

InjectReload(content) == ReplaceAll(content)

(* serve_html_with_reload: 200 with the rewritten content.                 *)
serve_html_with_reload(d, f) ==
  [kind |-> "html", file |-> f, status |-> 200, body |-> InjectReload(d[f])]

(* SimpleHTTPRequestHandler.do_GET on an existing file: the file as it is. *)
super_do_GET(d, f) ==
  [kind |-> "file", file |-> f, status |-> 200, body |-> d[f]]

(* send_error(404)                                                         *)
NotFound == [kind |-> "error", file |-> IndexFile, status |-> 404, body |-> << >>]

(* do_GET, lines 44-62: an existing file, else the SPA fallback.           *)
do_GET_NoFallback(d, hot, url) ==
  LET path == translate_path(url) IN
  IF isfile(d, path)
    THEN IF path.ext = "html" /\ hot
           THEN serve_html_with_reload(d, path)
           ELSE super_do_GET(d, path)
    ELSE NotFound

do_GET_InjectAlways(d, hot, url) ==
  LET path == translate_path(url) IN
  IF isfile(d, path)
    THEN IF path.ext = "html"
           THEN serve_html_with_reload(d, path)
           ELSE super_do_GET(d, path)
    ELSE IF isfile(d, IndexFile)
           THEN serve_html_with_reload(d, IndexFile)
           ELSE NotFound

do_GET(d, hot, url) ==
  LET path == translate_path(url) IN
  IF isfile(d, path)
    THEN IF path.ext = "html" /\ hot
           THEN serve_html_with_reload(d, path)
           ELSE super_do_GET(d, path)
    ELSE IF isfile(d, IndexFile)
           THEN IF hot
                  THEN serve_html_with_reload(d, IndexFile)
                  ELSE super_do_GET(d, IndexFile)
           ELSE NotFound

(* A GET from client h: either handle_sse takes the connection over, or    *)
(* the request is answered and the connection is free again.               *)
Get(h, url) ==
  /\ pc[h] = "idle"
  /\ IF IsSSE(url, hot_reload_enabled)
       THEN /\ pc' = [pc EXCEPT ![h] = "headers"]
            /\ resp' = [kind |-> "sse", url |-> url]
       ELSE /\ pc' = pc
            /\ resp' = [url |-> url] @@ do_GET(dist, hot_reload_enabled, url)
  /\ UNCHANGED << fsVars, watchVars, reload_event, clientVars, histVars,
                  hot_reload_enabled, dist, mainVars, jsVars, manVars,
                  runVars, testVars >>

(* The served directory: index.html with any content or absent; page.html  *)
(* and app.js, both containing a closing body tag, or absent; watch mode    *)
(* on or off.                                                               *)
SampleFile == << "text", BodyTag >>

HttpInit ==
  /\ hot_reload_enabled \in BOOLEAN
  /\ \E present \in SUBSET {IndexFile, PageFile, AppFile} :
       \E index \in Docs :
         dist = [f \in present |-> IF f = IndexFile THEN index ELSE SampleFile]
  /\ resp = NoResponse

InitHTTP ==
  ServerInit /\ HttpInit /\ MainDone /\ JsIdle /\ ManIdle /\ RunIdle /\ TestIdle

NextHTTP ==
  \/ \E h \in Clients, url \in Urls : Get(h, url)
  \/ \E h \in Clients : SendHeaders(h)
  \/ \E h \in Clients : AcquireReg(h)
  \/ \E h \in Clients : AppendClient(h)

SpecHTTP == InitHTTP /\ [][NextHTTP]_vars

----------------------------------------------------------------------------
(* The latest GET was answered by the file server (not the event stream).  *)
Answered == resp.kind \in {"html", "file", "error"}

Requested == translate_path(resp.url)

Count(doc, t) == Cardinality({i \in 1..Len(doc) : doc[i] = t})

(* C11: SPA fallback: a GET whose path maps to no existing file is         *)
(* answered 200 with the root index document when it exists and 404 iff it *)
(* is absent; a GET for an existing file is answered with that file.       *)
C11_SpaFallback ==
  Answered =>
    IF isfile(dist, Requested)
      THEN resp.status = 200 /\ resp.file = Requested
           /\ resp.body \in {dist[Requested], ReplaceAll(dist[Requested])}
      ELSE /\ isfile(dist, IndexFile) =>
                /\ resp.status = 200 /\ resp.file = IndexFile
                /\ resp.body \in {dist[IndexFile], ReplaceAll(dist[IndexFile])}
           /\ resp.status = 404 <=> ~isfile(dist, IndexFile)

(* /about is answered with the index document while page.html exists too. *)
C11_Witness ==
  /\ Answered /\ resp.url.stem = "about" /\ resp.status = 200
  /\ resp.file = IndexFile /\ isfile(dist, PageFile)

(* C12: with watch mode off a GET for /__hot_reload is not treated as the  *)
(* event stream: no handler leaves idle, nothing is registered, and the    *)
(* answer is the SPA handling's (the index document as it is, 404 without  *)
(* one); an event-stream response is opened only with watch mode on.       *)
C12_NoStreamWithoutWatch ==
  /\ resp.kind = "sse" => hot_reload_enabled /\ resp.url = HotReloadUrl
  /\ ~hot_reload_enabled =>
       /\ sse_clients = << >>
       /\ \A h \in Clients : pc[h] = "idle"
       /\ (resp.kind # "none" /\ resp.url = HotReloadUrl) =>
            IF isfile(dist, IndexFile)
              THEN resp.status = 200 /\ resp.file = IndexFile
                   /\ resp.body = dist[IndexFile]
              ELSE resp.status = 404

(* Watch mode off, /__hot_reload answered with the index document.         *)
C12_Witness ==
  /\ ~hot_reload_enabled /\ resp.kind = "file" /\ resp.url = HotReloadUrl
  /\ resp.status = 200 /\ resp.body = dist[IndexFile] /\ Len(resp.body) > 0

(* C13: with hot reload on, a GET for a non-existent path whose fallback   *)
(* document has one closing body tag is answered 200 with that document,   *)
(* the script inserted once immediately before the tag, the rest as it was.*)
C13_InjectedBeforeSoleTag ==
  ( /\ Answered /\ hot_reload_enabled
    /\ ~isfile(dist, Requested) /\ isfile(dist, IndexFile)
    /\ Count(dist[IndexFile], BodyTag) = 1 ) =>
    LET doc == dist[IndexFile]
        i   == CHOOSE j \in 1..Len(doc) : doc[j] = BodyTag
    IN  /\ resp.status = 200
        /\ resp.body = SubSeq(doc, 1, i - 1) \o << Script, BodyTag >>
                         \o SubSeq(doc, i + 1, Len(doc))

(* /about answered with text, script, tag, text.                           *)
C13_Witness ==
  /\ Answered /\ hot_reload_enabled /\ resp.url.stem = "about"
  /\ isfile(dist, IndexFile)
  /\ dist[IndexFile] = << "text", BodyTag, "text" >>
  /\ resp.body = << "text", Script, BodyTag, "text" >>

(* C14: whatever the number k of closing body tags in the document, the    *)
(* body served by serve_html_with_reload has the script at most once:      *)
(* once, before the first tag, when k >= 1; the document as it is when     *)
(* k = 0.                                                                  *)
C14_SingleSubstitution ==
  resp.kind = "html" =>
    LET doc == dist[resp.file]
        k   == Count(doc, BodyTag)
    IN  IF k = 0 THEN resp.body = doc
        ELSE LET i == CHOOSE j \in 1..Len(doc) :
                        doc[j] = BodyTag /\ \A m \in 1..(j - 1) : doc[m] # BodyTag
             IN  resp.body = SubSeq(doc, 1, i - 1) \o << Script, BodyTag >>
                               \o SubSeq(doc, i + 1, Len(doc))

(* C15: with hot reload off every answer is the file as it is on disk;     *)
(* with hot reload on only a document served as HTML (an existing .html    *)
(* file or the fallback index) can differ from the file on disk.           *)
C15_Verbatim ==
  (Answered /\ resp.status = 200) =>
    /\ ~hot_reload_enabled =>
         resp.body = dist[resp.file] /\ Count(resp.body, Script) = 0
    /\ resp.body # dist[resp.file] =>
         hot_reload_enabled /\ resp.file.ext = "html"
    /\ (isfile(dist, Requested) /\ Requested.ext # "html") =>
         resp.body = dist[Requested]

(* Hot reload off: page.html, which has a closing body tag, as it is.      *)
C15_Witness ==
  /\ ~hot_reload_enabled /\ Answered /\ resp.url.stem = "page"
  /\ resp.status = 200 /\ resp.body = << "text", BodyTag >>

----------------------------------------------------------------------------
(* main: the command line.                                                 *)

(* Bound of the model: at most MaxArgs arguments follow the script name.   *)
MaxArgs == 3

Flags == {"--no-watch", "--keep-cc", "--cc-only"}
ArgTokens == {"proj", "coi"} \cup Flags

Range(q) == {q[i] : i \in 1..Len(q)}

(* main, line 189: len(sys.argv) < 3, the script name included.            *)
TooFewArgs(a) == Len(a) < 3

(* main, line 196                                                          *)
HotReloadOf_Always(a) == TRUE

HotReloadOf(a) == "--no-watch" \notin Range(a)

(* main: the usage exit, or the globals are set, the watcher thread is     *)
(* started when watch mode is on, and the server binds its port.           *)
Main ==
  /\ mpc = "start"
  /\ IF TooFewArgs(argv)
       THEN /\ mpc' = "usage_exit"
            /\ UNCHANGED << hot_reload_enabled, watcher_started, cwd >>
       ELSE /\ hot_reload_enabled' = HotReloadOf(argv)
            /\ cwd' = ChdirDist(cwd, argv)
            /\ watcher_started' = HotReloadOf(argv)
            /\ mpc' = "serving"
  /\ UNCHANGED << serverVars, dist, resp, argv, jsVars, manVars, invoked,
                  testVars >>

InitMain ==
  /\ ServerInit
  /\ hot_reload_enabled = FALSE
  /\ dist = << >>
  /\ resp = NoResponse
  /\ \E n \in 0..MaxArgs : \E args \in [1..n -> ArgTokens] :
       argv = << "dev_server.py" >> \o args
  /\ mpc = "start"
  /\ watcher_started = FALSE
  /\ JsIdle
  /\ ManIdle
  /\ cwd = StartDir
  /\ invoked = None
  /\ TestIdle

NextMain == Main

SpecMain == InitMain /\ [][NextMain]_vars

(* The arguments after the script name that are not optional flags.        *)
Positionals(a) == Cardinality({i \in 2..Len(a) : a[i] \notin Flags})

(* C16: with fewer than two positional arguments, whatever flags are       *)
(* given, main exits with the usage message and neither starts the watcher *)
(* nor serves.                                                             *)
C16_UsageExit ==
  (mpc # "start" /\ Positionals(argv) < 2) =>
    (mpc = "usage_exit" /\ ~watcher_started)

----------------------------------------------------------------------------
(* C17: a tick invokes the build iff its snapshot differs from the         *)
(* previous one, that is iff some path is created, modified or deleted; a  *)
(* tick with an equal snapshot builds nothing and pulses nothing.          *)
C17_BuildIffSnapshotDiffers ==
  [][Tick =>
       LET snap     == get_mtimes(fs)
           created  == DOMAIN snap \ DOMAIN last
           modified == {p \in DOMAIN snap \cap DOMAIN last : snap[p] # last[p]}
           deleted  == DOMAIN last \ DOMAIN snap
       IN  IF created \cup modified \cup deleted # {}
             THEN wpc' = "building" /\ builds' = builds + 1
             ELSE /\ snap = last
                  /\ wpc' = "sleep" /\ builds' = builds
                  /\ pulses' = pulses /\ reload_event' = reload_event
    ]_vars

(* A build runs because a watched path disappeared, nothing else changed.  *)
C17_Witness ==
  /\ wpc = "building"
  /\ DOMAIN curr # DOMAIN last /\ DOMAIN curr \subseteq DOMAIN last
  /\ \A p \in DOMAIN curr : curr[p] = last[p]

(* C18: a handler writes reload only after a wait that returned signaled   *)
(* (the flag was set at or after its registration, so some build has       *)
(* succeeded), and a handler whose wait timed out writes the keep-alive    *)
(* and, the write succeeding, waits again with no reload written.          *)
C18_ReloadOnlyWhenSignaled ==
  [][\A h \in Clients :
       /\ WroteReload(h) => (pulses >= 1 /\ fresh[h])
       /\ (pc[h] = "timedout" /\ pc'[h] # "timedout" /\ ~broken[h]) =>
            (pc'[h] = "wait" /\ sincePulse'[h] = sincePulse[h])
    ]_vars

(* c1 wrote the reload of the one pulse; c2 wrote a keep-alive and waits   *)
(* again.                                                                  *)
C18_Witness ==
  /\ pulses = 1 /\ sincePulse["c1"] = 1
  /\ pingsOwed["c2"] = 1 /\ pc["c2"] = "blocked"

----------------------------------------------------------------------------
(* The injected client script (serve_html_with_reload, line 70), run by a  *)
(* browser tab.  Scroll offsets are counted in half pixels, as scrollY may *)
(* be fractional; strings are sequences of characters.                     *)

(* Bound of the model: scroll offsets are 0..MaxScrollHalves half pixels.  *)
MaxScrollHalves == 21

DigitChars == << "0", "1", "2", "3", "4", "5", "6", "7", "8", "9" >>

IsDigit(c) == \E d \in 1..Len(DigitChars) : DigitChars[d] = c
DigitValue(c) == (CHOOSE d \in 1..Len(DigitChars) : DigitChars[d] = c) - 1

RECURSIVE Digits(_)
Digits(n) ==
  IF n < Len(DigitChars) THEN << DigitChars[n + 1] >>
  ELSE Digits(n \div Len(DigitChars)) \o << DigitChars[(n % Len(DigitChars)) + 1] >>

(* sessionStorage.setItem(k, number): the number as a string.              *)
NumberToString(y2) ==
  Digits(y2 \div 2) \o (IF y2 % 2 = 1 THEN << ".", "5" >> ELSE << >>)

(* parseInt(s): the integer of the leading digits, in pixels; None is NaN. *)
RECURSIVE ParseDigits(_, _)
ParseDigits(str, acc) ==
  IF str = << >> \/ ~IsDigit(Head(str)) THEN acc
  ELSE ParseDigits(Tail(str), Len(DigitChars) * acc + DigitValue(Head(str)))

parseInt(str) ==
  IF str = << >> \/ ~IsDigit(Head(str)) THEN None ELSE Some(ParseDigits(str, 0))

(* if(s): null and the empty string are falsy, every other string truthy.  *)
Truthy(s) == s # None /\ s # Some(<< >>)

(* sessionStorage after removeItem(k).                                     *)
AfterRemove(s) == None

(* The user scrolls the page.                                              *)
UserScroll(y2) ==
  /\ jpc = "loaded"
  /\ scrollY' = y2
  /\ UNCHANGED << serverVars, httpVars, mainVars, manVars, runVars, testVars,
                  storage, jpc,
                  pending, scrolls, scrolledTo, target, origin >>

(* e.onmessage with data 'reload': setItem(k, scrollY || scrollTop) and    *)
(* location.reload().                                                      *)
ReloadMessage ==
  /\ jpc \in {"loading", "loaded"}
  /\ storage' = Some(NumberToString(scrollY))
  /\ target' = Some(scrollY)
  /\ origin' = "message"
  /\ pending' = None
  /\ jpc' = "reloading"
  /\ UNCHANGED << serverVars, httpVars, mainVars, manVars, runVars, testVars,
                  scrollY, scrolls,
                  scrolledTo >>

(* The user reloads the page.                                              *)
ManualReload ==
  /\ jpc \in {"loading", "loaded"}
  /\ target' = None
  /\ origin' = "manual"
  /\ pending' = None
  /\ jpc' = "reloading"
  /\ UNCHANGED << serverVars, httpVars, mainVars, manVars, runVars, testVars,
                  storage, scrollY,
                  scrolls, scrolledTo >>

(* The new document runs the script: getItem; if(s) removeItem, parseInt   *)
(* and the load listener.                                                  *)
PageScript ==
  /\ jpc = "reloading"
  /\ IF Truthy(storage)
       THEN /\ storage' = AfterRemove(storage)
            /\ pending' = parseInt(storage[1])
       ELSE /\ storage' = storage
            /\ pending' = None
  /\ scrollY' = 0
  /\ scrolls' = 0
  /\ scrolledTo' = None
  /\ jpc' = "loading"
  /\ UNCHANGED << serverVars, httpVars, mainVars, manVars, runVars, testVars,
                  target, origin >>

(* The load event and the animation frame: window.scrollTo(0, y).          *)
LoadEvent ==
  /\ jpc = "loading"
  /\ IF pending # None
       THEN /\ scrollY' = 2 * pending[1]
            /\ scrolledTo' = Some(2 * pending[1])
            /\ scrolls' = scrolls + 1
       ELSE UNCHANGED << scrollY, scrolledTo, scrolls >>
  /\ pending' = None
  /\ jpc' = "loaded"
  /\ UNCHANGED << serverVars, httpVars, mainVars, manVars, runVars, testVars,
                  storage, target,
                  origin >>

NextScroll ==
  \/ \E y2 \in 0..MaxScrollHalves : UserScroll(y2)
  \/ ReloadMessage
  \/ ManualReload
  \/ PageScript
  \/ LoadEvent

SpecScroll == Init /\ [][NextScroll]_vars

(* C19: a page loaded after a reload message that came at offset Y has     *)
(* scrolled exactly once, to Y, for every Y; a page loaded otherwise (the  *)
(* first load, a manual reload) has not scrolled; the stored value is      *)
(* there only between the message and the next page's script.              *)
C19_ScrollRestoredOnce ==
  /\ storage # None => (jpc = "reloading" /\ origin = "message")
  /\ jpc = "loaded" =>
       IF origin = "message"
         THEN scrolls = 1 /\ scrolledTo = target
         ELSE scrolls = 0

----------------------------------------------------------------------------
(* WebRunnerBase.parse_manifest (tests/runner/web_base.py).  Strings are   *)
(* sequences of characters.                                                *)

(* Bound of the model: a manifest has at most MaxLines lines.              *)
MaxLines == 2

Whitespace == {" ", "\t", "\n"}

RECURSIVE LStrip(_)
LStrip(str) ==
  IF str # << >> /\ Head(str) \in Whitespace THEN LStrip(Tail(str)) ELSE str

RECURSIVE RStrip(_)
RStrip(str) ==
  IF str # << >> /\ str[Len(str)] \in Whitespace
    THEN RStrip(SubSeq(str, 1, Len(str) - 1))
    ELSE str

(* str.strip()                                                             *)
Strip(str) == RStrip(LStrip(str))

(* str.split(sep): the pieces between the separators, at least one.        *)
RECURSIVE Split(_, _)
Split(str, sep) ==
  IF \A i \in 1..Len(str) : str[i] # sep THEN << str >>
  ELSE LET i == CHOOSE k \in 1..Len(str) :
                  str[k] = sep /\ \A j \in 1..(k - 1) : str[j] # sep
       IN  << SubSeq(str, 1, i - 1) >> \o Split(SubSeq(str, i + 1, Len(str)), sep)

(* str.startswith(prefix), str.endswith(suffix)                            *)
startswith(str, prefix) ==
  Len(prefix) <= Len(str) /\ SubSeq(str, 1, Len(prefix)) = prefix

endswith(str, suffix) ==
  /\ Len(suffix) <= Len(str)
  /\ SubSeq(str, Len(str) - Len(suffix) + 1, Len(str)) = suffix

WebTag == << "w", "e", "b" >>

(* "web" in backends: substring test on the whole field.                   *)
HasWeb_Substring(backends) ==
  \E i \in 1..Len(backends) : startswith(SubSeq(backends, i, Len(backends)), WebTag)

(* "web" in backends.split(",")                                            *)
HasWeb(backends) ==
  \E i \in 1..Len(Split(backends, ",")) : Split(backends, ",")[i] = WebTag

(* The filter test of lines 76-81; False is `continue`.                    *)
PassesFilter(name, f) ==
  IF f # None /\ f[1] # << >>
    THEN IF endswith(f[1], << "*" >>)
           THEN startswith(name, SubSeq(f[1], 1, Len(f[1]) - 1))
           ELSE name = f[1]
    ELSE TRUE

(* One iteration of the loop over the lines: scenes afterwards.            *)
ParseLine(acc, raw, f) ==
  LET line == Strip(raw) IN
  IF line = << >> \/ startswith(line, << "#" >>) THEN acc
  ELSE LET pieces == Split(line, "|")
           parts == [i \in 1..Len(pieces) |-> Strip(pieces[i])]
       IN  IF Len(parts) < 2 THEN acc
           ELSE LET name == parts[1]
                    rel_path == parts[2]
                    backends == IF Len(parts) > 2 THEN parts[3] ELSE << >>
                IN  IF ~HasWeb(backends) THEN acc
                    ELSE IF ~PassesFilter(name, f) THEN acc
                    ELSE Append(acc, << name, rel_path >>)

RECURSIVE ParseLines(_, _, _)
ParseLines(acc, lines, f) ==
  IF lines = << >> THEN acc
  ELSE ParseLines(ParseLine(acc, Head(lines), f), Tail(lines), f)

parse_manifest(lines, f) == ParseLines(<< >>, lines, f)

NotCalled == [kind |-> "none"]
Exited == [kind |-> "exit", code |-> 1]
Returned(list) == [kind |-> "returned", value |-> list]

(* A call of parse_manifest: self.fail when the file is missing.           *)
Parse ==
  /\ scenes = NotCalled
  /\ scenes' = IF manifest = None THEN Exited
               ELSE Returned(parse_manifest(manifest[1], filter_name))
  /\ UNCHANGED << serverVars, httpVars, mainVars, jsVars, runVars, testVars,
                  manifest, filter_name >>

(* Lines a manifest may hold: records with and without the web tag, with   *)
(* padded fields, too few and too many fields, blank lines and comments.   *)
ManifestLines ==
  { << "a", "|", "p", "|", "w", "e", "b" >>,
    << " ", "a", "b", " ", "|", " ", "q", " ", "|", " ", "w", "e", "b", ",", "g", "l", " " >>,
    << "b", "|", "q", "|", "g", "l", ",", "w", "e", "b" >>,
    << "a", "|", "q", "|", "g", "l" >>,
    << "a", "b", "|", "p", "|", "w", "e", "b", "g", "l" >>,
    << "b", "|", "p", "|", "g", "l", ",", " ", "w", "e", "b" >>,
    << "a", "|", "p" >>,
    << "a" >>,
    << >>,
    << " ", "\t" >>,
    << "#", "a", "|", "p", "|", "w", "e", "b" >>,
    << " ", "#", "b", "|", "q", "|", "w", "e", "b" >>,
    << "|", "p", "|", "w", "e", "b" >>,
    << "b", "|", "p", "|", "w", "e", "b", "|", "x" >> }

(* --scene: absent, or a string.                                           *)
Filters ==
  { None,
    Some(<< >>),
    Some(<< "a" >>),
    Some(<< "a", "*" >>),
    Some(<< "*" >>),
    Some(<< "a", "b" >>),
    Some(<< "b", "*" >>) }

Manifests ==
  UNION { [1..n -> ManifestLines] : n \in 0..MaxLines }

InitManifest ==
  /\ ServerInit /\ HttpIdle /\ MainDone /\ JsIdle /\ RunIdle /\ TestIdle
  /\ manifest \in {None} \cup {Some(m) : m \in Manifests}
  /\ filter_name \in Filters
  /\ scenes = NotCalled

NextManifest == Parse

SpecManifest == InitManifest /\ [][NextManifest]_vars

(* The fields of a record: the pipe-delimited pieces of the line, trimmed. *)
Fields(raw) ==
  [i \in 1..Len(Split(Strip(raw), "|")) |-> Strip(Split(Strip(raw), "|")[i])]

IsBlank(raw) == Strip(raw) = << >>
IsComment(raw) == ~IsBlank(raw) /\ Head(Strip(raw)) = "#"

(* The tag set of a record: the comma-separated pieces of its third field. *)
TagSet(raw) ==
  IF Len(Fields(raw)) >= 3 THEN Range(Split(Fields(raw)[3], ",")) ELSE {}

(* A name satisfies a filter: equal to it, or, when the filter ends in *,  *)
(* starting with the filter minus the *.                                   *)
Satisfies(name, pattern) ==
  IF pattern # << >> /\ pattern[Len(pattern)] = "*"
    THEN /\ Len(name) >= Len(pattern) - 1
         /\ \A i \in 1..(Len(pattern) - 1) : name[i] = pattern[i]
    ELSE name = pattern

(* The records of a manifest that are wanted, apart from the filter.       *)
WebRecord(raw) ==
  /\ ~IsBlank(raw)
  /\ ~IsComment(raw)
  /\ Len(Fields(raw)) >= 2
  /\ WebTag \in TagSet(raw)

PairOf(raw) == << Fields(raw)[1], Fields(raw)[2] >>

(* parse_manifest returned exactly the pairs of the records at the         *)
(* positions in keep, in manifest order, each once.                        *)
ReturnedExactly(keep) ==
  LET lines == manifest[1]
      kept == SelectSeq([i \in 1..Len(lines) |-> i], LAMBDA i : i \in keep)
  IN  /\ Len(scenes.value) = Len(kept)
      /\ \A j \in 1..Len(kept) : scenes.value[j] = PairOf(lines[kept[j]])

(* C20 as stated: the result is, in manifest order, exactly the pairs of   *)
(* the web records whose name satisfies the filter, when a filter is       *)
(* passed (None is no filter); none other and none twice.                  *)
C20_ExactlySelected ==
  scenes.kind = "returned" =>
    ReturnedExactly({ i \in 1..Len(manifest[1]) :
      /\ WebRecord(manifest[1][i])
      /\ filter_name # None =>
           Satisfies(Fields(manifest[1][i])[1], filter_name[1]) })

(* C20 amended: as C20, the filter applying only when it is a non-empty    *)
(* string (an empty filter string selects every name, as no filter does).  *)
C20_ExactlySelectedNonEmptyFilter ==
  scenes.kind = "returned" =>
    ReturnedExactly({ i \in 1..Len(manifest[1]) :
      /\ WebRecord(manifest[1][i])
      /\ (filter_name # None /\ filter_name[1] # << >>) =>
           Satisfies(Fields(manifest[1][i])[1], filter_name[1]) })

(* A wildcard filter over a manifest with a matching web record, a web     *)
(* record that does not match, and the first one returned alone.           *)
C20_Witness ==
  /\ scenes.kind = "returned"
  /\ filter_name = Some(<< "a", "*" >>)
  /\ Len(manifest[1]) = MaxLines
  /\ \E i, j \in 1..Len(manifest[1]) :
       /\ i < j
       /\ WebRecord(manifest[1][i]) /\ WebRecord(manifest[1][j])
       /\ Satisfies(Fields(manifest[1][i])[1], filter_name[1])
       /\ ~Satisfies(Fields(manifest[1][j])[1], filter_name[1])
       /\ scenes.value = << PairOf(manifest[1][i]) >>

----------------------------------------------------------------------------
(* The server from its command line on: main, then the watcher thread and  *)
(* the edits of the files it scans.                                        *)

(* Bound of the model: at most MaxFlags optional flags are given.          *)
MaxFlags == 2

(* <project_dir> as given: absolute, relative, or the current directory.   *)
ProjectDirs == {"/home/proj", "proj", "."}

InitRun ==
  /\ ServerInit
  /\ hot_reload_enabled = FALSE
  /\ dist = << >>
  /\ resp = NoResponse
  /\ \E d \in ProjectDirs : \E n \in 0..MaxFlags : \E given \in [1..n -> Flags] :
       argv = << "dev_server.py", d, "coi" >> \o given
  /\ mpc = "start"
  /\ watcher_started = FALSE
  /\ JsIdle
  /\ ManIdle
  /\ cwd = StartDir
  /\ invoked = None
  /\ TestIdle

NextRun ==
  \/ Main
  \/ \E p \in Paths : Create(p)
  \/ \E p \in Paths : Modify(p)
  \/ \E p \in Paths : Delete(p)
  \/ WatchStart
  \/ Tick
  \/ BuildReturn

SpecRun == InitRun /\ [][NextRun]_vars

(* A flag was given to the server: it is among the optional arguments.     *)
Given(flag) == \E i \in 4..Len(argv) : argv[i] = flag

(* The project directory: <project_dir> as named where the server started. *)
ProjectDir == Resolve(StartDir, PathOf(argv[2]))

(* C21: every build is invoked as <build_executable> build, then --keep-cc *)
(* iff that flag was given, then --cc-only iff that flag was given, with   *)
(* the project directory as its working directory.                         *)
C21_BuildCommand ==
  invoked # None =>
    /\ invoked[1].args =
         << argv[3], "build" >>
           \o (IF Given("--keep-cc") THEN << "--keep-cc" >> ELSE << >>)
           \o (IF Given("--cc-only") THEN << "--cc-only" >> ELSE << >>)
    /\ invoked[1].cwd = ProjectDir

----------------------------------------------------------------------------
(* serve_html_with_reload when reading the file fails: open() or read()    *)
(* raises after do_GET's isfile test (the file was removed, or may not be  *)
(* read), and the except clause calls send_error(500, str(e)).             *)

(* A document whose name has characters outside Latin-1 (U+65E5 U+672C).   *)
WideFile == [stem |-> "u65E5u672C", ext |-> "html"]

ServeUrls ==
  { [stem |-> "index", ext |-> "html", query |-> ""],
    [stem |-> "page",  ext |-> "html", query |-> ""],
    [stem |-> WideFile.stem, ext |-> "html", query |-> ""],
    [stem |-> "about", ext |-> "",     query |-> ""] }

(* str(e) of the OSError names the file: the message can be encoded as     *)
(* Latin-1 iff the file's path can.                                        *)
MessageIsLatin1(f) == f.stem # WideFile.stem

(* BaseHTTPRequestHandler.send_error(code, message): send_response_only    *)
(* encodes the status line with the message as Latin-1, strictly, before   *)
(* anything is written; UnicodeEncodeError leaves the handler.             *)
send_error(code, f) ==
  IF MessageIsLatin1(f)
    THEN [kind |-> "ioerror", file |-> f, sent |-> << code >>, raised |-> FALSE]
    ELSE [kind |-> "ioerror", file |-> f, sent |-> << >>, raised |-> TRUE]

(* The file do_GET hands to serve_html_with_reload, or None.               *)
InjectedFile(d, hot, url) ==
  LET path == translate_path(url) IN
  IF isfile(d, path)
    THEN IF path.ext = "html" /\ hot THEN Some(path) ELSE None
    ELSE IF isfile(d, IndexFile) /\ hot THEN Some(IndexFile) ELSE None

(* dist without the file f.                                                *)
Unlinked(d, f) == [g \in DOMAIN d \ {f} |-> d[g]]

(* A GET from client h served with injection, the read of the file         *)
(* failing: the file is gone by then, or is there and cannot be read.      *)
GetReadFails(h, url) ==
  /\ pc[h] = "idle"
  /\ ~IsSSE(url, hot_reload_enabled)
  /\ InjectedFile(dist, hot_reload_enabled, url) # None
  /\ LET f == InjectedFile(dist, hot_reload_enabled, url)[1] IN
       /\ resp' = [url |-> url] @@ send_error(500, f)
       /\ \E gone \in BOOLEAN : dist' = IF gone THEN Unlinked(dist, f) ELSE dist
  /\ UNCHANGED << serverVars, hot_reload_enabled, mainVars, jsVars, manVars,
                  runVars, testVars >>

ServeInit ==
  /\ hot_reload_enabled \in BOOLEAN
  /\ \E present \in SUBSET {IndexFile, PageFile, WideFile} :
       \E index \in Docs :
         dist = [f \in present |-> IF f = IndexFile THEN index ELSE SampleFile]
  /\ resp = NoResponse

InitServe ==
  ServerInit /\ ServeInit /\ MainDone /\ JsIdle /\ ManIdle /\ RunIdle /\ TestIdle

NextServe ==
  \/ \E h \in Clients, url \in ServeUrls : Get(h, url)
  \/ \E h \in Clients, url \in ServeUrls : GetReadFails(h, url)

SpecServe == InitServe /\ [][NextServe]_vars

(* C22: a GET served with injection whose file cannot be read is answered  *)
(* with exactly one response, of status 500, and no exception leaves the   *)
(* request handler; no 200 response is begun.                              *)
C22_IoErrorOne500 ==
  resp.kind = "ioerror" => (resp.sent = << 500 >> /\ ~resp.raised)

----------------------------------------------------------------------------
(* The watcher thread is scheduled as long as it can take a step; the      *)
(* edits of the files are under no obligation to happen.                   *)
FairWatch == Init /\ [][NextWatch]_vars /\ WF_vars(Watcher)

(* No more builds start than files are created, modified or recreated and  *)
(* deleted.                                                                *)
MostBuilds == 2 * MaxClock + Cardinality(Paths)

(* C23: when a watched file changed while the build command was running    *)
(* (the watched files differ from the snapshot the tick took before the    *)
(* build), a later tick starts a further build, unless the files are back  *)
(* at the baseline by then.                                                *)
C23_ChangeDuringBuildRebuilt ==
  \A n \in 0..MostBuilds :
    (wpc = "building" /\ builds = n /\ get_mtimes(fs) # curr)
      ~> \/ builds > n
         \/ (wpc = "sleep" /\ get_mtimes(fs) = last)

----------------------------------------------------------------------------
(* C24: a handler's clear of the signal never discards a pulse no handler  *)
(* has delivered: when a handler clears the set flag, some client has been *)
(* written reload since the latest pulse, or a handler woken by it is      *)
(* about to write to a connected client.                                   *)
C24_ClearAfterConsumed ==
  [][\A h \in Clients :
       (pc[h] = "clear" /\ pc'[h] = "wait" /\ reload_event) =>
         \E g \in Clients :
           \/ sincePulse[g] >= 1
           \/ (pc[g] = "woke" /\ ~broken[g])
    ]_vars

----------------------------------------------------------------------------
(* Clients that connect only after a build has succeeded: one edit, one    *)
(* build, and the event streams.                                           *)
ConnectLate(h) == pulses >= 1 /\ Connect(h)

NextLate ==
  \/ \E p \in Paths : clock < MaxFairClock /\ Modify(p)
  \/ WatchStart
  \/ Tick
  \/ BuildReturn
  \/ \E h \in Clients : ConnectLate(h)
  \/ \E h \in Clients : Disconnect(h)
  \/ \E h \in Clients : Handler(h)

SpecLate == Init /\ [][NextLate]_vars

(* h registered before every other client.                                 *)
FirstRegistered(h) ==
  /\ sse_clients # << >>
  /\ sse_clients[1] = h
  /\ \A g \in Clients \ {h} : pc[g] # "done"

(* C25: the pulse was issued while no client was registered; the first     *)
(* client that registers afterwards is written reload on its first wait:   *)
(* it never blocks in the wait without having written reload.              *)
C25_LatePulseDelivered ==
  \A h \in Clients :
    (FirstRegistered(h) /\ pc[h] = "blocked") => sincePulse[h] >= 1

----------------------------------------------------------------------------
(* C26: when the build a tick started ends, succeeded, failed or raised,   *)
(* the baseline becomes that tick's snapshot; a tick after a failed build  *)
(* with no watched file changed since that snapshot builds nothing.        *)
C26_BaselineAdvancesOnFailure ==
  [][ /\ BuildReturn => last' = curr
      /\ (Tick /\ lastBuild \in {"fail", "raise"} /\ ~dirty) =>
           (builds' = builds /\ wpc' = "sleep" /\ last' = last)
    ]_vars

(* A build failed, and a later tick left the watcher asleep without a      *)
(* second build: the baseline is the failed build's snapshot.              *)
C26_Witness ==
  /\ lastBuild = "fail" /\ builds = 1 /\ wpc = "sleep"
  /\ last = curr /\ last = get_mtimes(fs) /\ clock > 1 /\ ~dirty

(* C27: at most one build runs at a time: while a build runs the watcher   *)
(* takes no snapshot and starts no build; its only step is the build's     *)
(* end, and a build is started only by a watcher that runs none.           *)
C27_OneBuildInFlight ==
  [][ /\ wpc = "building" =>
           /\ curr' = curr /\ builds' = builds
           /\ wpc' \in {"building", "sleep"}
      /\ builds' # builds =>
           (wpc = "sleep" /\ wpc' = "building" /\ builds' = builds + 1)
    ]_vars

(* A file changed while the build was running, and the build is still the  *)
(* only one started.                                                       *)
C27_Witness ==
  /\ wpc = "building" /\ builds = 1 /\ dirty /\ get_mtimes(fs) # curr

(* C28: the watcher's start takes the baseline and builds nothing; the     *)
(* first build is started by a tick in whose interval a watched file       *)
(* changed; no pulse comes before a build; and with --no-watch the watcher *)
(* never runs and nothing is ever built.                                   *)
C28_NoBuildBeforeChange ==
  [][ /\ WatchStart => (builds' = 0 /\ pulses' = 0 /\ last' = get_mtimes(fs))
      /\ (builds = 0 /\ builds' # 0) => (Tick /\ dirty)
      /\ pulses' # pulses => builds >= 1
      /\ (\E i \in 1..Len(argv) : argv[i] = "--no-watch") =>
           (builds' = 0 /\ pulses' = 0 /\ wpc' = "start" /\ invoked' = None)
    ]_vars

(* The server runs with --no-watch, a watched file was edited, and nothing *)
(* was built.                                                              *)
C28_Witness ==
  /\ mpc = "serving" /\ "--no-watch" \in Range(argv)
  /\ clock > 1 /\ dirty /\ builds = 0 /\ wpc = "start"

----------------------------------------------------------------------------
(* UnitRunner.run (tests/runner/unit.py) with TestRunnerBase.ensure_build. *)

(* Bound of the model: at most MaxTests test files are found.              *)
MaxTests == 3

(* Exit codes of the compiler: success, an error, killed by a signal.      *)
ReturnCodes == {0, 1, -11}

(* A test file: its name ends in _pass.coi or in _fail.coi; returncode is  *)
(* what the compiler returns for it.                                       *)
TestFiles == [is_pass_test : BOOLEAN, returncode : ReturnCodes]

(* The compiler executable at the start, and what ./build.sh does.         *)
Environments ==
  [compiler : {"executable", "not_executable", "missing"},
   build : {"makes", "makes_nothing", "fails"}]

(* ensure_build: "ok", or the process ends: check_call raises when         *)
(* build.sh fails, self.fail when the executable is still missing.         *)
ensure_build(env) ==
  IF env.compiler = "executable" THEN "ok"
  ELSE IF env.build = "fails" THEN "exit"
  ELSE IF env.build = "makes_nothing" /\ env.compiler = "missing" THEN "exit"
  ELSE "ok"

(* The compiler can be run once ensure_build has passed.                   *)
Runnable(env) == env.compiler = "executable" \/ env.build = "makes"

(* success, lines 38-48                                                    *)
Succeeds_NeverOnFailTest(t) == t.is_pass_test /\ t.returncode = 0

Succeeds(t) ==
  IF t.is_pass_test THEN t.returncode = 0 ELSE t.returncode # 0

(* run, up to the loop: ensure_build, the walk of tests_dir, and the       *)
(* return when no test is found.                                           *)
UnitStart ==
  /\ upc = "start"
  /\ IF ensure_build(uenv) = "exit"
       THEN upc' = "exited" /\ test_files' = test_files
       ELSE /\ test_files' = udisk
            /\ upc' = IF Len(udisk) = 0 THEN "returned" ELSE "loop"
  /\ UNCHANGED << serverVars, httpVars, mainVars, jsVars, manVars, runVars,
                  itVars, uenv, udisk, ui, passed_count, failures, verdicts >>

(* One iteration of the loop: the compiler is run on the test and the      *)
(* outcome is counted; subprocess.run raises when the executable cannot    *)
(* be run, which ends the process.                                         *)
UnitTest ==
  /\ upc = "loop"
  /\ ui <= Len(test_files)
  /\ IF ~Runnable(uenv)
       THEN /\ upc' = "exited"
            /\ UNCHANGED << ui, passed_count, failures, verdicts >>
       ELSE /\ upc' = upc
            /\ ui' = ui + 1
            /\ verdicts' = Append(verdicts,
                 [test |-> ui, success |-> Succeeds(test_files[ui])])
            /\ IF Succeeds(test_files[ui])
                 THEN passed_count' = passed_count + 1 /\ failures' = failures
                 ELSE passed_count' = passed_count /\ failures' = Append(failures, ui)
  /\ UNCHANGED << serverVars, httpVars, mainVars, jsVars, manVars, runVars,
                  itVars, uenv, udisk, test_files >>

(* After the loop: sys.exit(1) when failures were recorded.                *)
UnitFinish ==
  /\ upc = "loop"
  /\ ui > Len(test_files)
  /\ upc' = IF Len(failures) = 0 THEN "returned" ELSE "exited"
  /\ UNCHANGED << serverVars, httpVars, mainVars, jsVars, manVars, runVars,
                  itVars, uenv, udisk, test_files, ui, passed_count, failures,
                  verdicts >>

InitUnit ==
  /\ ServerInit /\ HttpIdle /\ MainDone /\ JsIdle /\ ManIdle /\ RunIdle
  /\ IntIdle
  /\ uenv \in Environments
  /\ udisk \in UNION { [1..n -> TestFiles] : n \in 0..MaxTests }
  /\ upc = "start"
  /\ test_files = << >>
  /\ ui = 1
  /\ passed_count = 0
  /\ failures = << >>
  /\ verdicts = << >>

NextUnit == UnitStart \/ UnitTest \/ UnitFinish

SpecUnit == InitUnit /\ [][NextUnit]_vars

(* The run is over: it returned, or the process exited with code 1.        *)
UnitOver == upc \in {"returned", "exited"}

(* Every discovered test was classified exactly once, a _pass test as a    *)
(* success iff the compiler exited 0 and a _fail test iff it did not, and  *)
(* the counts add up.                                                      *)
UnitClassified ==
  /\ Len(verdicts) = Len(test_files)
  /\ \A k \in 1..Len(verdicts) :
       /\ verdicts[k].test = k
       /\ verdicts[k].success =
            IF test_files[k].is_pass_test
              THEN test_files[k].returncode = 0
              ELSE test_files[k].returncode # 0
  /\ passed_count = Cardinality({k \in 1..Len(verdicts) : verdicts[k].success})
  /\ \A k \in 1..Len(verdicts) :
       Cardinality({j \in 1..Len(failures) : failures[j] = k})
         = IF verdicts[k].success THEN 0 ELSE 1
  /\ passed_count + Len(failures) = Len(test_files)

(* C29 as stated: at the end every discovered test is classified exactly   *)
(* once, passed_count plus the recorded failures is the total, and the     *)
(* runner exits with code 1 iff a failure was recorded.                    *)
C29_UnitVerdicts ==
  UnitOver =>
    /\ UnitClassified
    /\ upc = "exited" <=> Len(failures) >= 1

(* The run ended for want of a compiler: ensure_build ended the process,  *)
(* or the executable could not be run on the first test.                   *)
CompilerFailed ==
  \/ ensure_build(uenv) = "exit"
  \/ (~Runnable(uenv) /\ Len(udisk) > 0)

(* C29 amended: as C29, but the runner also exits with code 1, no test     *)
(* classified and no failure recorded, when the compiler executable cannot *)
(* be built or run.                                                        *)
C29_UnitVerdictsOrNoCompiler ==
  UnitOver =>
    /\ upc = "exited" <=> (Len(failures) >= 1 \/ CompilerFailed)
    /\ IF CompilerFailed
         THEN verdicts = << >> /\ failures = << >> /\ passed_count = 0
         ELSE UnitClassified

(* Three tests: a _fail test the compiler crashed on (a success), a _pass  *)
(* test it rejected (the one failure) and a _pass test it accepted.        *)
C29_Witness ==
  /\ upc = "exited" /\ Len(test_files) = 3
  /\ passed_count = 2 /\ Len(failures) = 1
  /\ \E k \in 1..Len(test_files) :
       ~test_files[k].is_pass_test /\ test_files[k].returncode < 0
         /\ verdicts[k].success

----------------------------------------------------------------------------
(* IntegrationRunner.run (tests/runner/integration.py) with the WebServer  *)
(* context manager (tests/runner/web_base.py).                             *)

(* Bound of the model: at most MaxScenes scenes are selected.              *)
MaxScenes == 2

(* A selected scene: whether its file exists, whether the compiler builds  *)
(* it, and how the browser test ends: exit 0, CalledProcessError, or       *)
(* subprocess.run raising something else (node cannot be started).         *)
Scenes ==
  [exists : BOOLEAN, build : {"ok", "fails"},
   test : {"passes", "fails", "raises"}]

(* The set-up before the loop: check_deps (npm install raises),            *)
(* ensure_build, get_browser (self.fail), or all of them pass.             *)
SetUps == {"ok", "npm_fails", "no_compiler", "no_browser"}

(* Lines 14-22: the set-up passes and some scene matched.                  *)
SetUpPasses(env, sc) == env = "ok" /\ Len(sc) > 0

(* After the build of a scene: the web server is entered, or `continue`.   *)
AfterBuild_AlwaysServe(b) == "enter"

AfterBuild(b) == IF b = "ok" THEN "enter" ELSE "loop"

(* run, up to the loop.                                                    *)
IntStart ==
  /\ ipc = "start"
  /\ ipc' = IF SetUpPasses(ienv, iscenes) THEN "loop" ELSE "exited"
  /\ UNCHANGED << serverVars, httpVars, mainVars, jsVars, manVars, runVars,
                  unitVars, ienv, iscenes, ii, failed, proc, counted, tested >>

(* Lines 27-56 of one iteration: the scene file is missing, or the scene   *)
(* is built.                                                               *)
IntScene ==
  /\ ipc = "loop"
  /\ ii <= Len(iscenes)
  /\ LET sc == iscenes[ii] IN
       IF ~sc.exists \/ AfterBuild(sc.build) = "loop"
         THEN /\ failed' = failed + 1
              /\ counted' = Append(counted, ii)
              /\ ii' = ii + 1
              /\ ipc' = "loop"
         ELSE /\ ipc' = "enter"
              /\ UNCHANGED << failed, counted, ii >>
  /\ UNCHANGED << serverVars, httpVars, mainVars, jsVars, manVars, runVars,
                  unitVars, ienv, iscenes, proc, tested >>

(* WebServer.__enter__: the http.server process is started.                *)
IntServerStart ==
  /\ ipc = "enter"
  /\ proc' = "running"
  /\ ipc' = "browser"
  /\ UNCHANGED << serverVars, httpVars, mainVars, jsVars, manVars, runVars,
                  unitVars, ienv, iscenes, ii, failed, counted, tested >>

(* Lines 75-85: the browser test.                                          *)
IntBrowserTest ==
  /\ ipc = "browser"
  /\ tested' = tested \cup {ii}
  /\ LET outcome == iscenes[ii].test IN
       /\ ipc' = IF outcome = "raises" THEN "leave_raising" ELSE "leave"
       /\ IF outcome = "fails"
            THEN failed' = failed + 1 /\ counted' = Append(counted, ii)
            ELSE UNCHANGED << failed, counted >>
  /\ UNCHANGED << serverVars, httpVars, mainVars, jsVars, manVars, runVars,
                  unitVars, ienv, iscenes, ii, proc >>

(* WebServer.__exit__: proc.terminate(), proc.wait(); then the next scene, *)
(* or the exception goes on and ends the process.                          *)
IntServerStop ==
  /\ ipc \in {"leave", "leave_raising"}
  /\ proc' = "terminated"
  /\ IF ipc = "leave"
       THEN ipc' = "loop" /\ ii' = ii + 1
       ELSE ipc' = "exited" /\ ii' = ii
  /\ UNCHANGED << serverVars, httpVars, mainVars, jsVars, manVars, runVars,
                  unitVars, ienv, iscenes, failed, counted, tested >>

(* After the loop: sys.exit(1) when failed is not 0.                       *)
IntFinish ==
  /\ ipc = "loop"
  /\ ii > Len(iscenes)
  /\ ipc' = IF failed = 0 THEN "returned" ELSE "exited"
  /\ UNCHANGED << serverVars, httpVars, mainVars, jsVars, manVars, runVars,
                  unitVars, ienv, iscenes, ii, failed, proc, counted, tested >>

InitInt ==
  /\ ServerInit /\ HttpIdle /\ MainDone /\ JsIdle /\ ManIdle /\ RunIdle
  /\ UnitIdle
  /\ ienv \in SetUps
  /\ iscenes \in UNION { [1..n -> Scenes] : n \in 0..MaxScenes }
  /\ ipc = "start"
  /\ ii = 1
  /\ failed = 0
  /\ proc = "none"
  /\ counted = << >>
  /\ tested = {}

NextInt ==
  \/ IntStart
  \/ IntScene
  \/ IntServerStart
  \/ IntBrowserTest
  \/ IntServerStop
  \/ IntFinish

SpecInt == InitInt /\ [][NextInt]_vars

(* Each scene is counted as failed at most once, and only when its file is *)
(* missing, its build failed or its browser test failed; no browser test   *)
(* is run for a scene whose build failed; the scene's server process is    *)
(* running only while its browser test is.                                 *)
IntCounts ==
  /\ failed = Len(counted)
  /\ \A k \in 1..Len(iscenes) :
       /\ Cardinality({j \in 1..Len(counted) : counted[j] = k}) <= 1
       /\ (\E j \in 1..Len(counted) : counted[j] = k) =>
            \/ ~iscenes[k].exists
            \/ iscenes[k].build = "fails"
            \/ iscenes[k].test = "fails"
  /\ \A k \in tested : iscenes[k].exists /\ iscenes[k].build = "ok"
  /\ proc = "running" => ipc \in {"browser", "leave", "leave_raising"}

IntAborted ==
  \/ ~SetUpPasses(ienv, iscenes)
  \/ (ii <= Len(iscenes) /\ ii \in tested /\ iscenes[ii].test = "raises")

====
